---------------------------- MODULE Spec2Model ----------------------------
(***************************************************************************)
(* Model of main/boards/esp32c3-supermini/esp32c3_supermini_board.cc:      *)
(* the Esp32C3SuperMiniBoard class.  The board is constructed on the       *)
(* startup task (SPI bus, panel IO, panel driver, panel init, display      *)
(* object, button callback); afterwards the button click callback runs on  *)
(* the GPIO-event task, the application task calls the board's network and *)
(* query operations, and other tasks fetch the LED / codec / display       *)
(* handles.  WifiStation and Application are collaborators seen only       *)
(* through the calls the board makes on them.                              *)
(***************************************************************************)
EXTENDS Integers, Sequences, FiniteSets, TLC

VARIABLES
    ctorPc,            \* index into Constructor of the next constructor step
    aborted,           \* ESP_ERROR_CHECK aborted the startup path
    bringup,           \* bring-up steps completed so far, in order
    ignoredErrs,       \* steps whose error return the constructor discarded
    display_,          \* the display_ member
    onClick,           \* a click callback is registered on boot_button_
    destroyed,         \* ~Esp32C3SuperMiniBoard has run
    started,           \* WifiStation: Start() was the last of Start/Stop
    connected,         \* WifiStation::IsConnected()
    psLevel,           \* WifiStation: stored power-save level
    ssid,              \* WifiStation::GetSsid()
    ip,                \* WifiStation::GetIpAddress()
    rssi,              \* WifiStation::GetRssi()
    deviceState,       \* Application::GetDeviceState()
    clickPc,           \* position of the click callback on the GPIO task
    clickState,        \* device state the running callback read
    clickConn,         \* IsConnected() value the running callback read
    clickTrace,        \* calls the current / last callback made, in order
    appCall,           \* last board operation the application task called
    appSeq,            \* alternates on every application-task call
    startNetworkCalls, \* StartNetwork() calls made so far
    ledGuard,          \* init guard of the function-local static led
    codecGuard,        \* init guard of the function-local static audio_codec
    ledCtors,          \* SingleLed constructions so far
    codecCtors,        \* NoAudioCodecSimplex constructions so far
    firstLed,          \* handle the first completed GetLed() returned
    firstCodec,        \* handle the first completed GetAudioCodec() returned
    taskPc,            \* per accessor task: position inside an accessor
    taskRet            \* per accessor task: last accessor result

ctorVars == <<ctorPc, aborted, bringup, ignoredErrs, display_, onClick, destroyed>>
radioVars == <<started, connected, psLevel>>
apVars == <<ssid, ip, rssi>>
clickVars == <<clickPc, clickState, clickConn, clickTrace>>
appVars == <<appCall, appSeq, startNetworkCalls>>
staticVars == <<ledGuard, codecGuard, ledCtors, codecCtors, firstLed, firstCodec>>
taskVars == <<taskPc, taskRet>>
vars == <<ctorVars, radioVars, apVars, deviceState, clickVars, appVars, staticVars, taskVars>>

(***************************************************************************)
(* Bounds of the model.                                                    *)
(***************************************************************************)
\* How many times the application task calls StartNetwork().
MaxStartNetwork == 1
\* Longest SSID / IP string drawn for the status-JSON check.
MaxStrLen == 2

(***************************************************************************)
(* Small helpers.                                                          *)
(***************************************************************************)
Last(s) == s[Len(s)]

IsPrefix(s, t) == Len(s) <= Len(t) /\ SubSeq(t, 1, Len(s)) = s

Count(s, e) == Cardinality({i \in 1..Len(s) : s[i] = e})

Min(a, b) == IF a < b THEN a ELSE b


(***************************************************************************)
(* Values of the collaborators' types.                                     *)
(***************************************************************************)
NullPtr == "nullptr"

\* PowerSaveLevel values a caller can pass: the three enumerators and a
\* value outside them (an enum class admits any value of its underlying type).
InputLevels == {"LOW_POWER", "BALANCED", "PERFORMANCE", "OUT_OF_RANGE"}

\* Tasks that fetch peripheral handles from the board.
Tasks == {"t1", "t2"}

\* No call yet: ret is the text a call returned (empty for void).
NoCall == [op |-> "none", arg |-> "-", radio |-> << >>, ret |-> << >>]

NoRet == [fn |-> "none", handle |-> "none"]

(***************************************************************************)
(* Construction: Esp32C3SuperMiniBoard() runs InitializeSpi(),             *)
(* InitializeLcdDisplay(), InitializeButtons() in this order.  Each entry  *)
(* is one call; "check" says whether its esp_err_t goes through            *)
(* ESP_ERROR_CHECK (which aborts on an error) or is discarded.             *)
(***************************************************************************)
InitializeSpi ==
    << [kind |-> "esp", call |-> "spi_bus_initialize", check |-> TRUE] >>

InitializeLcdDisplay ==
    << [kind |-> "esp", call |-> "esp_lcd_new_panel_io_spi", check |-> TRUE],
       [kind |-> "esp", call |-> "esp_lcd_new_panel_st7789", check |-> TRUE],
       [kind |-> "esp", call |-> "esp_lcd_panel_reset", check |-> FALSE],
       [kind |-> "esp", call |-> "esp_lcd_panel_init", check |-> FALSE],
       [kind |-> "esp", call |-> "esp_lcd_panel_invert_color", check |-> FALSE],
       [kind |-> "esp", call |-> "esp_lcd_panel_swap_xy", check |-> FALSE],
       [kind |-> "esp", call |-> "esp_lcd_panel_mirror", check |-> FALSE],
       [kind |-> "esp", call |-> "esp_lcd_panel_disp_on_off", check |-> FALSE],
       [kind |-> "new", call |-> "new SpiLcdDisplay", check |-> FALSE] >>

InitializeButtons ==
    << [kind |-> "onclick", call |-> "boot_button_.OnClick", check |-> FALSE] >>

\* A constructor that binds the button before the display exists.
Constructor_ButtonsFirst == InitializeButtons \o InitializeSpi \o InitializeLcdDisplay

Constructor == InitializeSpi \o InitializeLcdDisplay \o InitializeButtons

Constructing == ~aborted /\ ctorPc <= Len(Constructor)

Built == ~aborted /\ ctorPc > Len(Constructor)

\* An ESP-IDF call of the constructor returns ESP_OK or an error.
EspCall ==
    /\ Constructing
    /\ Constructor[ctorPc].kind = "esp"
    /\ \E err \in {"ESP_OK", "ESP_FAIL"} :
         LET step == Constructor[ctorPc] IN
         IF step.check /\ err # "ESP_OK"
         THEN /\ aborted' = TRUE
              /\ UNCHANGED <<ctorPc, bringup, ignoredErrs>>
         ELSE /\ ctorPc' = ctorPc + 1
              /\ bringup' = Append(bringup, step.call)
              /\ ignoredErrs' = IF err # "ESP_OK"
                                THEN ignoredErrs \cup {step.call}
                                ELSE ignoredErrs
              /\ UNCHANGED aborted
    /\ UNCHANGED <<display_, onClick, destroyed>>
    /\ UNCHANGED <<radioVars, apVars, deviceState, clickVars, appVars, staticVars, taskVars>>

\* display_ = new SpiLcdDisplay(...)
NewDisplay ==
    /\ Constructing
    /\ Constructor[ctorPc].kind = "new"
    /\ display_' = "SpiLcdDisplay"
    /\ ctorPc' = ctorPc + 1
    /\ bringup' = Append(bringup, Constructor[ctorPc].call)
    /\ UNCHANGED <<aborted, ignoredErrs, onClick, destroyed>>
    /\ UNCHANGED <<radioVars, apVars, deviceState, clickVars, appVars, staticVars, taskVars>>

\* boot_button_.OnClick([this]() {...})
RegisterOnClick ==
    /\ Constructing
    /\ Constructor[ctorPc].kind = "onclick"
    /\ onClick' = TRUE
    /\ ctorPc' = ctorPc + 1
    /\ bringup' = Append(bringup, Constructor[ctorPc].call)
    /\ UNCHANGED <<aborted, ignoredErrs, display_, destroyed>>
    /\ UNCHANGED <<radioVars, apVars, deviceState, clickVars, appVars, staticVars, taskVars>>

\* ~Esp32C3SuperMiniBoard(): the board lives as long as the process, so the
\* destructor runs at process exit, when no task is inside a board call.
Destroy ==
    /\ Built
    /\ ~destroyed
    /\ clickPc \in {"idle", "returned"}
    /\ \A t \in Tasks : taskPc[t] = "idle"
    /\ destroyed' = TRUE
    /\ display_' = NullPtr
    /\ UNCHANGED <<ctorPc, aborted, bringup, ignoredErrs, onClick>>
    /\ UNCHANGED <<radioVars, apVars, deviceState, clickVars, appVars, staticVars, taskVars>>

(***************************************************************************)
(* WifiStation, as the board uses it.                                      *)
(***************************************************************************)
RadioStart ==
    /\ started' = TRUE
    /\ UNCHANGED <<connected, psLevel>>

RadioStop ==
    /\ started' = FALSE
    /\ connected' = FALSE
    /\ UNCHANGED psLevel

\* The station associates on its own once started.
RadioConnects ==
    /\ ~destroyed
    /\ started
    /\ ~connected
    /\ connected' = TRUE
    /\ UNCHANGED <<started, psLevel>>
    /\ UNCHANGED <<ctorVars, apVars, deviceState, clickVars, appVars, staticVars, taskVars>>

\* The station loses its association.
RadioDisconnects ==
    /\ ~destroyed
    /\ connected
    /\ connected' = FALSE
    /\ UNCHANGED <<started, psLevel>>
    /\ UNCHANGED <<ctorVars, apVars, deviceState, clickVars, appVars, staticVars, taskVars>>

(***************************************************************************)
(* Application, as the board uses it.                                      *)
(***************************************************************************)
\* Application::ToggleChatState()
ToggleChatState(s) ==
    CASE s = "Idle" -> "Listening"
      [] s = "Listening" -> "Idle"
      [] OTHER -> s

\* The application leaves the Starting state when its startup is done.
AppStartupDone ==
    /\ ~destroyed
    /\ Built
    /\ deviceState = "Starting"
    /\ deviceState' = "Idle"
    /\ UNCHANGED <<ctorVars, radioVars, apVars, clickVars, appVars, staticVars, taskVars>>

(***************************************************************************)
(* The click callback registered by InitializeButtons().                   *)
(***************************************************************************)
\* The callback's branch condition with the negation of IsConnected() lost.
ResetCondition_NoNegation(state, conn) == state = "Starting" /\ conn

\* app.GetDeviceState() == kDeviceStateStarting && !wifi_station_.IsConnected()
ResetCondition(state, conn) == state = "Starting" /\ ~conn

\* The reset branch with the vTaskDelay left out.
ClickAfter_NoDelay(pc) ==
    CASE pc = "stop" -> "start"
      [] pc = "delay" -> "start"
      [] pc = "start" -> "toggle"
      [] pc = "toggle" -> "returned"

\* Statement order inside the callback.
ClickAfter(pc) ==
    CASE pc = "stop" -> "delay"
      [] pc = "delay" -> "start"
      [] pc = "start" -> "toggle"
      [] pc = "toggle" -> "returned"

\* The button fires the callback: app = Application::GetInstance() and the
\* left operand of &&, app.GetDeviceState().  A false left operand skips
\* IsConnected().
ClickInvoke ==
    /\ onClick
    /\ ~destroyed
    /\ clickPc \in {"idle", "returned"}
    /\ clickState' = deviceState
    /\ clickConn' = FALSE
    /\ clickTrace' = <<>>
    /\ clickPc' = IF deviceState = "Starting" THEN "isConnected" ELSE "toggle"
    /\ UNCHANGED <<ctorVars, radioVars, apVars, deviceState, appVars, staticVars, taskVars>>

\* The right operand, wifi_station_.IsConnected(), and the branch.
ClickIsConnected ==
    /\ clickPc = "isConnected"
    /\ clickConn' = connected
    /\ clickPc' = IF ResetCondition(clickState, connected) THEN "stop" ELSE "toggle"
    /\ UNCHANGED <<clickState, clickTrace>>
    /\ UNCHANGED <<ctorVars, radioVars, apVars, deviceState, appVars, staticVars, taskVars>>

\* wifi_station_.Stop()
ClickStop ==
    /\ clickPc = "stop"
    /\ RadioStop
    /\ clickTrace' = Append(clickTrace, "Stop")
    /\ clickPc' = ClickAfter("stop")
    /\ UNCHANGED <<clickState, clickConn>>
    /\ UNCHANGED <<ctorVars, apVars, deviceState, appVars, staticVars, taskVars>>

\* vTaskDelay(pdMS_TO_TICKS(100)): the GPIO task is suspended; others run.
ClickDelay ==
    /\ clickPc = "delay"
    /\ clickTrace' = Append(clickTrace, "Delay")
    /\ clickPc' = ClickAfter("delay")
    /\ UNCHANGED <<clickState, clickConn>>
    /\ UNCHANGED <<ctorVars, radioVars, apVars, deviceState, appVars, staticVars, taskVars>>

\* wifi_station_.Start() and the log line
ClickStart ==
    /\ clickPc = "start"
    /\ RadioStart
    /\ clickTrace' = Append(clickTrace, "Start")
    /\ clickPc' = ClickAfter("start")
    /\ UNCHANGED <<clickState, clickConn>>
    /\ UNCHANGED <<ctorVars, apVars, deviceState, appVars, staticVars, taskVars>>

\* app.ToggleChatState() and the callback's return
ClickToggle ==
    /\ clickPc = "toggle"
    /\ deviceState' = ToggleChatState(deviceState)
    /\ clickTrace' = Append(clickTrace, "Toggle")
    /\ clickPc' = ClickAfter("toggle")
    /\ UNCHANGED <<clickState, clickConn>>
    /\ UNCHANGED <<ctorVars, radioVars, apVars, appVars, staticVars, taskVars>>


(***************************************************************************)
(* Text.  A string is a sequence of one-character strings.                 *)
(***************************************************************************)
\* The literal GetBoardJson() returns.
BoardJsonText ==
    << "{", "\n", " ", " ", " ", " ", " ", " ", " ", " ", " ", " ", " ",
       " ", "\"", "n", "a", "m", "e", "\"", ":", " ", "\"", "E", "S", "P",
       "3", "2", "-", "C", "3", " ", "S", "u", "p", "e", "r", "M", "i",
       "n", "i", "\"", ",", "\n", " ", " ", " ", " ", " ", " ", " ", " ",
       " ", " ", " ", " ", "\"", "v", "e", "r", "s", "i", "o", "n", "\"",
       ":", " ", "\"", "1", ".", "0", "\"", ",", "\n", " ", " ", " ", " ",
       " ", " ", " ", " ", " ", " ", " ", " ", "\"", "d", "i", "s", "p",
       "l", "a", "y", "\"", ":", " ", "{", "\n", " ", " ", " ", " ", " ",
       " ", " ", " ", " ", " ", " ", " ", " ", " ", " ", " ", "\"", "w",
       "i", "d", "t", "h", "\"", ":", " ", "2", "4", "0", ",", "\n", " ",
       " ", " ", " ", " ", " ", " ", " ", " ", " ", " ", " ", " ", " ",
       " ", " ", "\"", "h", "e", "i", "g", "h", "t", "\"", ":", " ", "2",
       "4", "0", ",", "\n", " ", " ", " ", " ", " ", " ", " ", " ", " ",
       " ", " ", " ", " ", " ", " ", " ", "\"", "t", "y", "p", "e", "\"",
       ":", " ", "\"", "s", "t", "7", "7", "8", "9", "\"", "\n", " ", " ",
       " ", " ", " ", " ", " ", " ", " ", " ", " ", " ", "}", ",", "\n",
       " ", " ", " ", " ", " ", " ", " ", " ", " ", " ", " ", " ", "\"",
       "a", "u", "d", "i", "o", "\"", ":", " ", "{", "\n", " ", " ", " ",
       " ", " ", " ", " ", " ", " ", " ", " ", " ", " ", " ", " ", " ",
       "\"", "i", "n", "p", "u", "t", "_", "s", "a", "m", "p", "l", "e",
       "_", "r", "a", "t", "e", "\"", ":", " ", "1", "6", "0", "0", "0",
       ",", "\n", " ", " ", " ", " ", " ", " ", " ", " ", " ", " ", " ",
       " ", " ", " ", " ", " ", "\"", "o", "u", "t", "p", "u", "t", "_",
       "s", "a", "m", "p", "l", "e", "_", "r", "a", "t", "e", "\"", ":",
       " ", "2", "4", "0", "0", "0", "\n", " ", " ", " ", " ", " ", " ",
       " ", " ", " ", " ", " ", " ", "}", "\n", " ", " ", " ", " ", " ",
       " ", " ", " ", "}" >>

\* The format string of GetDeviceStatusJson(), cut at its four conversions:
\* FmtHead %s FmtSsid %s FmtIp %s FmtRssi %d FmtTail
FmtHead ==
    << "{", "\n", " ", " ", " ", " ", " ", " ", " ", " ", " ", " ", " ",
       " ", " ", " ", " ", " ", "\"", "w", "i", "f", "i", "_", "c", "o",
       "n", "n", "e", "c", "t", "e", "d", "\"", ":", " " >>

FmtSsid ==
    << ",", "\n", " ", " ", " ", " ", " ", " ", " ", " ", " ", " ", " ",
       " ", " ", " ", " ", " ", "\"", "w", "i", "f", "i", "_", "s", "s",
       "i", "d", "\"", ":", " ", "\"" >>

FmtIp ==
    << "\"", ",", "\n", " ", " ", " ", " ", " ", " ", " ", " ", " ", " ",
       " ", " ", " ", " ", " ", " ", "\"", "i", "p", "_", "a", "d", "d",
       "r", "e", "s", "s", "\"", ":", " ", "\"" >>

FmtRssi ==
    << "\"", ",", "\n", " ", " ", " ", " ", " ", " ", " ", " ", " ", " ",
       " ", " ", " ", " ", " ", " ", "\"", "r", "s", "s", "i", "\"", ":",
       " " >>

FmtTail ==
    << "\n", " ", " ", " ", " ", " ", " ", " ", " ", " ", " ", " ", " ",
       "}" >>

\* sizeof(buffer) in GetDeviceStatusJson()
BufferSize == 256

TrueText == << "t", "r", "u", "e" >>

FalseText == << "f", "a", "l", "s", "e" >>

DigitChars == << "0", "1", "2", "3", "4", "5", "6", "7", "8", "9" >>

RECURSIVE NatToDec(_)
\* The decimal digits of a natural number, most significant first.
NatToDec(n) ==
    IF n < 10
    THEN << DigitChars[n + 1] >>
    ELSE NatToDec(n \div 10) \o << DigitChars[(n % 10) + 1] >>

\* printf's %d
IntToDec(n) == IF n < 0 THEN << "-" >> \o NatToDec(0 - n) ELSE NatToDec(n)

\* snprintf(buffer, size, ...) keeps at most size - 1 characters.
Snprintf(size, text) == SubSeq(text, 1, Min(Len(text), size - 1))

\* snprintf(buffer, sizeof(buffer), fmt, connected ? "true" : "false",
\*          ssid.c_str(), ip.c_str(), rssi)
DeviceStatusJson(conn, ssidStr, ipStr, rssiVal) ==
    Snprintf(BufferSize,
             FmtHead \o (IF conn THEN TrueText ELSE FalseText)
             \o FmtSsid \o ssidStr
             \o FmtIp \o ipStr
             \o FmtRssi \o IntToDec(rssiVal)
             \o FmtTail)

(***************************************************************************)
(* A JSON reader for flat objects (string keys; string, boolean and        *)
(* integer values), the yardstick for the status text.  The \u escape is   *)
(* left out: no text of this model holds it.                               *)
(***************************************************************************)
Whitespace == {" ", "\n", "\t", "\r"}

EscapeChars == {"\"", "\\", "/", "b", "f", "n", "r", "t"}

ParseFail == [ok |-> FALSE]

RECURSIVE SkipWs(_, _)
SkipWs(s, i) == IF i <= Len(s) /\ s[i] \in Whitespace THEN SkipWs(s, i + 1) ELSE i

Unescape(c) ==
    CASE c = "n" -> "\n"
      [] c = "t" -> "\t"
      [] c = "r" -> "\r"
      [] c = "b" -> "<BS>"
      [] c = "f" -> "\f"
      [] OTHER -> c

RECURSIVE ScanString(_, _, _)
\* s from position i, inside a string literal whose decoded text so far is acc
ScanString(s, i, acc) ==
    IF i > Len(s) THEN ParseFail
    ELSE IF s[i] = "\"" THEN [ok |-> TRUE, pos |-> i + 1, val |-> acc]
    ELSE IF s[i] = "\\"
         THEN IF i + 1 <= Len(s) /\ s[i + 1] \in EscapeChars
              THEN ScanString(s, i + 2, Append(acc, Unescape(s[i + 1])))
              ELSE ParseFail
    ELSE IF s[i] \in {"\n", "\t", "\r", "\f"} THEN ParseFail
    ELSE ScanString(s, i + 1, Append(acc, s[i]))

ParseString(s, i) ==
    IF i <= Len(s) /\ s[i] = "\"" THEN ScanString(s, i + 1, << >>) ELSE ParseFail

IsDigit(c) == \E d \in 1..10 : DigitChars[d] = c

DigitVal(c) == (CHOOSE d \in 1..10 : DigitChars[d] = c) - 1

RECURSIVE ScanDigits(_, _, _)
ScanDigits(s, i, acc) ==
    IF i <= Len(s) /\ IsDigit(s[i])
    THEN ScanDigits(s, i + 1, 10 * acc + DigitVal(s[i]))
    ELSE [ok |-> TRUE, pos |-> i, val |-> acc]

ParseInt(s, i) ==
    LET neg == i <= Len(s) /\ s[i] = "-"
        j == IF neg THEN i + 1 ELSE i
    IN  IF j > Len(s) \/ ~IsDigit(s[j]) THEN ParseFail
        ELSE IF s[j] = "0" THEN [ok |-> TRUE, pos |-> j + 1, val |-> 0]
        ELSE LET r == ScanDigits(s, j, 0)
             IN  [ok |-> TRUE, pos |-> r.pos, val |-> IF neg THEN 0 - r.val ELSE r.val]

StartsWith(s, i, lit) ==
    i + Len(lit) - 1 <= Len(s) /\ SubSeq(s, i, i + Len(lit) - 1) = lit

\* A value at position i: [ok, pos, type, val]
ParseValue(s, i) ==
    IF i > Len(s) THEN ParseFail
    ELSE IF s[i] = "\""
         THEN LET r == ParseString(s, i)
              IN  IF r.ok THEN [ok |-> TRUE, pos |-> r.pos, type |-> "string", val |-> r.val]
                  ELSE ParseFail
    ELSE IF StartsWith(s, i, TrueText)
         THEN [ok |-> TRUE, pos |-> i + Len(TrueText), type |-> "bool", val |-> TRUE]
    ELSE IF StartsWith(s, i, FalseText)
         THEN [ok |-> TRUE, pos |-> i + Len(FalseText), type |-> "bool", val |-> FALSE]
    ELSE LET r == ParseInt(s, i)
         IN  IF r.ok THEN [ok |-> TRUE, pos |-> r.pos, type |-> "int", val |-> r.val]
             ELSE ParseFail

RECURSIVE ParseMembers(_, _, _)
\* key : value pairs from position i up to the closing brace
ParseMembers(s, i, acc) ==
    LET k == ParseString(s, i)
    IN  IF ~k.ok THEN ParseFail
        ELSE LET c == SkipWs(s, k.pos)
             IN  IF c > Len(s) \/ s[c] # ":" THEN ParseFail
                 ELSE LET v == ParseValue(s, SkipWs(s, c + 1))
                      IN  IF ~v.ok THEN ParseFail
                          ELSE LET e == SkipWs(s, v.pos)
                                   got == Append(acc, [key |-> k.val, type |-> v.type, val |-> v.val])
                               IN  IF e > Len(s) THEN ParseFail
                                   ELSE IF s[e] = "}" THEN [ok |-> TRUE, pos |-> e + 1, members |-> got]
                                   ELSE IF s[e] = "," THEN ParseMembers(s, SkipWs(s, e + 1), got)
                                   ELSE ParseFail

\* The whole text as one JSON object: [ok, members]
ParseJsonObject(s) ==
    LET i == SkipWs(s, 1)
    IN  IF i > Len(s) \/ s[i] # "{" THEN ParseFail
        ELSE LET j == SkipWs(s, i + 1)
                 r == IF j <= Len(s) /\ s[j] = "}"
                      THEN [ok |-> TRUE, pos |-> j + 1, members |-> << >>]
                      ELSE ParseMembers(s, j, << >>)
             IN  IF r.ok /\ SkipWs(s, r.pos) = Len(s) + 1
                 THEN [ok |-> TRUE, members |-> r.members]
                 ELSE ParseFail

KeyWifiConnected == << "w", "i", "f", "i", "_", "c", "o", "n", "n", "e", "c", "t", "e", "d" >>

KeyWifiSsid == << "w", "i", "f", "i", "_", "s", "s", "i", "d" >>

KeyIpAddress == << "i", "p", "_", "a", "d", "d", "r", "e", "s", "s" >>

KeyRssi == << "r", "s", "s", "i" >>

\* text is a JSON object with exactly the four status keys, of the declared
\* types, holding the given values.
IsStatusJsonOf(text, conn, ssidStr, ipStr, rssiVal) ==
    LET r == ParseJsonObject(text)
    IN  /\ r.ok
        /\ Len(r.members) = 4
        /\ \E m \in 1..4 : /\ r.members[m].key = KeyWifiConnected
                            /\ r.members[m].type = "bool"
                            /\ r.members[m].val = conn
        /\ \E m \in 1..4 : /\ r.members[m].key = KeyWifiSsid
                            /\ r.members[m].type = "string"
                            /\ r.members[m].val = ssidStr
        /\ \E m \in 1..4 : /\ r.members[m].key = KeyIpAddress
                            /\ r.members[m].type = "string"
                            /\ r.members[m].val = ipStr
        /\ \E m \in 1..4 : /\ r.members[m].key = KeyRssi
                            /\ r.members[m].type = "int"
                            /\ r.members[m].val = rssiVal

(***************************************************************************)
(* Operations the application task calls on the built board.  Each runs    *)
(* to its return in one step: none of them suspends.                       *)
(***************************************************************************)
AppReturns(op, arg, radio, ret) ==
    /\ appCall' = [op |-> op, arg |-> arg, radio |-> radio, ret |-> ret]
    /\ appSeq' = 1 - appSeq

\* StartNetwork(): wifi_station_.Start()
StartNetwork ==
    /\ Built
    /\ ~destroyed
    /\ startNetworkCalls < MaxStartNetwork
    /\ startNetworkCalls' = startNetworkCalls + 1
    /\ RadioStart
    /\ AppReturns("StartNetwork", "-", << [op |-> "Start", arg |-> "-"] >>, << >>)
    /\ UNCHANGED <<ctorVars, apVars, deviceState, clickVars, staticVars, taskVars>>

WifiText == << "w", "i", "f", "i" >>

WifiOffText == << "w", "i", "f", "i", "_", "o", "f", "f" >>

\* The icon names exchanged.
NetworkStateIcon_Swapped(conn) == IF conn THEN WifiOffText ELSE WifiText

\* wifi_station_.IsConnected() ? "wifi" : "wifi_off"
NetworkStateIcon(conn) == IF conn THEN WifiText ELSE WifiOffText

\* GetNetworkStateIcon()
GetNetworkStateIcon ==
    /\ Built
    /\ ~destroyed
    /\ AppReturns("GetNetworkStateIcon", "-", << >>, NetworkStateIcon(connected))
    /\ UNCHANGED startNetworkCalls
    /\ UNCHANGED <<ctorVars, radioVars, apVars, deviceState, clickVars, staticVars, taskVars>>

\* The switch with its default arm falling to PERFORMANCE.
WifiLevelOf_DefaultPerformance(level) ==
    CASE level = "LOW_POWER" -> "LOW_POWER"
      [] level = "BALANCED" -> "BALANCED"
      [] OTHER -> "PERFORMANCE"

\* The switch of SetPowerSaveLevel(): PowerSaveLevel -> WifiPowerSaveLevel
WifiLevelOf(level) ==
    CASE level = "LOW_POWER" -> "LOW_POWER"
      [] level = "BALANCED" -> "BALANCED"
      [] level = "PERFORMANCE" -> "PERFORMANCE"
      [] OTHER -> "BALANCED"

\* SetPowerSaveLevel(level): wifi_station_.SetPowerSaveLevel(wifi_level)
SetPowerSaveLevel(level) ==
    /\ Built
    /\ ~destroyed
    /\ psLevel' = WifiLevelOf(level)
    /\ AppReturns("SetPowerSaveLevel", level,
                  << [op |-> "SetPowerSaveLevel", arg |-> WifiLevelOf(level)] >>, << >>)
    /\ UNCHANGED <<started, connected, startNetworkCalls>>
    /\ UNCHANGED <<ctorVars, apVars, deviceState, clickVars, staticVars, taskVars>>

\* GetBoardJson()
GetBoardJson ==
    /\ Built
    /\ ~destroyed
    /\ AppReturns("GetBoardJson", "-", << >>, BoardJsonText)
    /\ UNCHANGED startNetworkCalls
    /\ UNCHANGED <<ctorVars, radioVars, apVars, deviceState, clickVars, staticVars, taskVars>>

\* GetDeviceStatusJson()
GetDeviceStatusJson ==
    /\ Built
    /\ ~destroyed
    /\ AppReturns("GetDeviceStatusJson", "-", << >>,
                  DeviceStatusJson(connected, ssid, ip, rssi))
    /\ UNCHANGED startNetworkCalls
    /\ UNCHANGED <<ctorVars, radioVars, apVars, deviceState, clickVars, staticVars, taskVars>>

(***************************************************************************)
(* Peripheral accessors, called from any task.  led and audio_codec are    *)
(* function-local statics: the first caller takes the static's init guard, *)
(* constructs the object and releases the guard; a caller that finds the   *)
(* guard taken waits for it.                                               *)
(***************************************************************************)
LedHandle == "&led"

CodecHandle == "&audio_codec"

\* A static initialised without the guard: whoever finds it unfinished enters.
MayInitStatic_Unguarded(guard) == guard # "done"

\* A caller may start the static's construction.
MayInitStatic(guard) == guard = "uninit"

TaskReturns(t, fn, handle) ==
    /\ taskRet' = [taskRet EXCEPT ![t] = [fn |-> fn, handle |-> handle]]
    /\ taskPc' = [taskPc EXCEPT ![t] = "idle"]

\* GetLed(), up to the static's guard
GetLedEnter(t) ==
    /\ Built
    /\ ~destroyed
    /\ taskPc[t] = "idle"
    /\ IF ledGuard = "done"
       THEN /\ TaskReturns(t, "GetLed", LedHandle)
            /\ firstLed' = IF firstLed = "none" THEN LedHandle ELSE firstLed
            /\ UNCHANGED ledGuard
       ELSE /\ MayInitStatic(ledGuard)
            /\ ledGuard' = "busy"
            /\ taskPc' = [taskPc EXCEPT ![t] = "led_init"]
            /\ UNCHANGED <<taskRet, firstLed>>
    /\ UNCHANGED <<codecGuard, ledCtors, codecCtors, firstCodec>>
    /\ UNCHANGED <<ctorVars, radioVars, apVars, deviceState, clickVars, appVars>>

\* static SingleLed led(BUILTIN_LED_GPIO); return &led;
GetLedInit(t) ==
    /\ taskPc[t] = "led_init"
    /\ ledCtors' = ledCtors + 1
    /\ ledGuard' = "done"
    /\ TaskReturns(t, "GetLed", LedHandle)
    /\ firstLed' = IF firstLed = "none" THEN LedHandle ELSE firstLed
    /\ UNCHANGED <<codecGuard, codecCtors, firstCodec>>
    /\ UNCHANGED <<ctorVars, radioVars, apVars, deviceState, clickVars, appVars>>

\* GetAudioCodec(), up to the static's guard
GetAudioCodecEnter(t) ==
    /\ Built
    /\ ~destroyed
    /\ taskPc[t] = "idle"
    /\ IF codecGuard = "done"
       THEN /\ TaskReturns(t, "GetAudioCodec", CodecHandle)
            /\ firstCodec' = IF firstCodec = "none" THEN CodecHandle ELSE firstCodec
            /\ UNCHANGED codecGuard
       ELSE /\ MayInitStatic(codecGuard)
            /\ codecGuard' = "busy"
            /\ taskPc' = [taskPc EXCEPT ![t] = "codec_init"]
            /\ UNCHANGED <<taskRet, firstCodec>>
    /\ UNCHANGED <<ledGuard, ledCtors, codecCtors, firstLed>>
    /\ UNCHANGED <<ctorVars, radioVars, apVars, deviceState, clickVars, appVars>>

\* static NoAudioCodecSimplex audio_codec(...); return &audio_codec;
GetAudioCodecInit(t) ==
    /\ taskPc[t] = "codec_init"
    /\ codecCtors' = codecCtors + 1
    /\ codecGuard' = "done"
    /\ TaskReturns(t, "GetAudioCodec", CodecHandle)
    /\ firstCodec' = IF firstCodec = "none" THEN CodecHandle ELSE firstCodec
    /\ UNCHANGED <<ledGuard, ledCtors, firstLed>>
    /\ UNCHANGED <<ctorVars, radioVars, apVars, deviceState, clickVars, appVars>>

\* GetDisplay(): return display_;
GetDisplay(t) ==
    /\ Built
    /\ ~destroyed
    /\ taskPc[t] = "idle"
    /\ TaskReturns(t, "GetDisplay", display_)
    /\ UNCHANGED <<ctorVars, radioVars, apVars, deviceState, clickVars, appVars, staticVars>>

(***************************************************************************)
(* Initial states.                                                         *)
(***************************************************************************)
SsidLab == << "l", "a", "b" >>

IpLab == << "1", "0", ".", "0", ".", "0", ".", "7" >>

\* Everything but the constructor's own state and the radio's reports.
InitRest ==
    /\ destroyed = FALSE
    /\ psLevel = "UNSET"
    /\ deviceState = "Starting"
    /\ clickPc = "idle"
    /\ clickState = "none"
    /\ clickConn = FALSE
    /\ clickTrace = << >>
    /\ appCall = NoCall
    /\ appSeq = 0
    /\ startNetworkCalls = 0
    /\ ledGuard = "uninit"
    /\ codecGuard = "uninit"
    /\ ledCtors = 0
    /\ codecCtors = 0
    /\ firstLed = "none"
    /\ firstCodec = "none"
    /\ taskPc = [t \in Tasks |-> "idle"]
    /\ taskRet = [t \in Tasks |-> NoRet]

\* The constructor's member initialisers have run; its body has not.
InitCtor ==
    /\ ctorPc = 1
    /\ aborted = FALSE
    /\ bringup = << >>
    /\ ignoredErrs = {}
    /\ display_ = NullPtr
    /\ onClick = FALSE
    /\ started = FALSE
    /\ connected = FALSE
    /\ ssid = SsidLab
    /\ ip = IpLab
    /\ rssi = 0 - 42
    /\ InitRest

\* The constructor has returned, every call of it having succeeded.
BuiltBoard ==
    /\ ctorPc = Len(Constructor) + 1
    /\ aborted = FALSE
    /\ bringup = [i \in 1..Len(Constructor) |-> Constructor[i].call]
    /\ ignoredErrs = {}
    /\ display_ = "SpiLcdDisplay"
    /\ onClick = TRUE

Init ==
    /\ BuiltBoard
    /\ started = FALSE
    /\ connected = FALSE
    /\ ssid = SsidLab
    /\ ip = IpLab
    /\ rssi = 0 - 42
    /\ InitRest

RECURSIVE StringsUpTo(_, _)
\* All strings over alphabet of length at most n.
StringsUpTo(alphabet, n) ==
    IF n = 0
    THEN {<< >>}
    ELSE LET shorter == StringsUpTo(alphabet, n - 1)
         IN  shorter \cup {Append(str, c) : str \in shorter, c \in alphabet}

\* Bytes an SSID may hold, among them the two that JSON strings must escape.
SsidChars == {"a", "\"", "\\"}

\* A built board whose started radio reports any of the drawn values.
InitJson ==
    /\ BuiltBoard
    /\ started = TRUE
    /\ connected \in BOOLEAN
    /\ ssid \in StringsUpTo(SsidChars, MaxStrLen)
    /\ ip \in {<< >>, IpLab}
    /\ rssi \in {0 - 128, 0 - 42, 0, 7}
    /\ InitRest

(***************************************************************************)
(* Specifications.                                                         *)
(***************************************************************************)
CtorStep == EspCall \/ NewDisplay \/ RegisterOnClick

Click ==
    \/ ClickInvoke
    \/ ClickIsConnected
    \/ ClickStop
    \/ ClickDelay
    \/ ClickStart
    \/ ClickToggle

Radio == RadioConnects \/ RadioDisconnects

AppOp ==
    \/ StartNetwork
    \/ GetNetworkStateIcon
    \/ \E level \in InputLevels : SetPowerSaveLevel(level)
    \/ GetBoardJson
    \/ GetDeviceStatusJson

Accessor ==
    \E t \in Tasks :
        \/ GetLedEnter(t)
        \/ GetLedInit(t)
        \/ GetAudioCodecEnter(t)
        \/ GetAudioCodecInit(t)
        \/ GetDisplay(t)

\* Construction, with the button live as soon as its callback is bound.
NextInit == CtorStep \/ Click \/ Radio \/ AppStartupDone

SpecInit == InitCtor /\ [][NextInit]_vars

\* The built board: the GPIO task, the application task, the radio.
Next == Click \/ AppOp \/ Radio \/ AppStartupDone \/ Destroy

Spec == Init /\ [][Next]_vars

\* The built board with the accessor tasks added.
NextAccessors == Next \/ Accessor

SpecAccessors == Init /\ [][NextAccessors]_vars

\* The status query over the radio's possible reports.
NextJson == GetDeviceStatusJson \/ GetNetworkStateIcon \/ Radio

SpecJson == InitJson /\ [][NextJson]_vars

(***************************************************************************)
(* What a step shows of the calls made on the radio.                       *)
(***************************************************************************)
\* The running click callback makes the call named e in this step.
ClickCalls(e) ==
    /\ Len(clickTrace') = Len(clickTrace) + 1
    /\ Last(clickTrace') = e

\* The application task calls the board operation op in this step.
AppCalls(op) == appSeq' # appSeq /\ appCall'.op = op

RadioGetsStart == ClickCalls("Start") \/ AppCalls("StartNetwork")

RadioGetsStop == ClickCalls("Stop")

\* The running (or last) callback read Starting and not-connected.
ResetObserved == clickState = "Starting" /\ ~clickConn

ResetTrace == << "Stop", "Delay", "Start", "Toggle" >>

(***************************************************************************)
(* The claims.                                                             *)
(***************************************************************************)
\* C1: a click that reads device state Starting and radio not-connected
\* makes its calls in the order Stop(), the 100 ms delay, Start(),
\* ToggleChatState(): what it has done so far is always a prefix of that
\* sequence, and when it returns it has done exactly that sequence, with
\* one toggle, after the Start().
C1_ResetThenToggle ==
    (clickPc \in {"stop", "delay", "start", "toggle", "returned"} /\ ResetObserved)
        => /\ IsPrefix(clickTrace, ResetTrace)
           /\ clickPc = "toggle" => clickTrace = << "Stop", "Delay", "Start" >>
           /\ clickPc = "returned" => clickTrace = ResetTrace

C1_Witness ==
    /\ clickPc = "returned"
    /\ ResetObserved
    /\ clickTrace = ResetTrace

\* C2: a click that reads a device state other than Starting, or reads the
\* radio connected, calls neither Stop() nor Start() and toggles exactly
\* once; and every click that has returned has toggled exactly once.
C2_NoResetOneToggle ==
    /\ (clickPc \in {"toggle", "returned"} /\ ~ResetObserved)
           => /\ Count(clickTrace, "Stop") = 0
              /\ Count(clickTrace, "Start") = 0
              /\ clickPc = "toggle" => clickTrace = << >>
              /\ clickPc = "returned" => clickTrace = << "Toggle" >>
    /\ clickPc = "returned" => Count(clickTrace, "Toggle") = 1

C2_Witness ==
    /\ clickPc = "returned"
    /\ clickState = "Starting"
    /\ clickConn
    /\ clickTrace = << "Toggle" >>

\* C3 (as claimed): the radio is not started before the application has
\* called StartNetwork(): until then construction and clicks leave it
\* unstarted.
C3_StartDeferred == startNetworkCalls = 0 => ~started

\* The order the construction steps are claimed to take.
ClaimedOrder ==
    << "spi_bus_initialize", "esp_lcd_new_panel_io_spi", "esp_lcd_new_panel_st7789",
       "new SpiLcdDisplay", "boot_button_.OnClick" >>

\* Step b has not completed unless step a completed before it.
Precedes(a, b) ==
    \A j \in 1..Len(bringup) :
        bringup[j] = b => \E i \in 1..(j - 1) : bringup[i] = a

\* C4: construction completes SPI bus init, panel-IO install, panel driver
\* install, display construction and click-callback registration in this
\* order, each only after the one before it; so a callback is registered,
\* and a click runs, only on a board whose display_ is non-null.
C4_BringupOrder ==
    /\ \A k \in 1..(Len(ClaimedOrder) - 1) : Precedes(ClaimedOrder[k], ClaimedOrder[k + 1])
    /\ onClick => display_ # NullPtr
    /\ clickPc # "idle" => display_ # NullPtr

C4_Witness ==
    /\ Built
    /\ clickPc = "returned"
    /\ display_ # NullPtr
    /\ Last(bringup) = "boot_button_.OnClick"

\* C5 (as claimed): every error a bring-up step returns aborts the startup
\* path: no error return is survived, and after an abort there is neither
\* a display object nor a registered click callback.
C5_FailureIsFatal ==
    /\ ignoredErrs = {}
    /\ aborted => (display_ = NullPtr /\ ~onClick)

\* The radio level claimed for each input level.
ClaimedWifiLevel(level) ==
    IF level \in {"LOW_POWER", "BALANCED", "PERFORMANCE"} THEN level ELSE "BALANCED"

\* C6: SetPowerSaveLevel(level) makes exactly one SetPowerSaveLevel call on
\* the radio, with LOW_POWER, BALANCED, PERFORMANCE for the like-named
\* input and BALANCED for any other, and the radio then stores that level
\* whatever it stored before.
C6_PowerSaveMapping ==
    appCall.op = "SetPowerSaveLevel"
        => /\ appCall.radio =
                  << [op |-> "SetPowerSaveLevel", arg |-> ClaimedWifiLevel(appCall.arg)] >>
           /\ psLevel = ClaimedWifiLevel(appCall.arg)

C6_Witness ==
    /\ appCall.op = "SetPowerSaveLevel"
    /\ appCall.arg = "OUT_OF_RANGE"
    /\ psLevel = "BALANCED"

\* C7 (as claimed): whatever the radio reports, GetDeviceStatusJson()
\* returns a well-formed JSON object with exactly the keys wifi_connected,
\* wifi_ssid, ip_address and rssi, whose values are the radio's, untruncated.
C7_StatusJsonWellFormed ==
    [][AppCalls("GetDeviceStatusJson")
          => IsStatusJsonOf(appCall'.ret, connected, ssid, ip, rssi)]_vars

\* C8: GetNetworkStateIcon() returns "wifi" exactly when the radio reports
\* connected at the call and "wifi_off" otherwise, and makes no call that
\* changes the radio.
C8_IconFollowsRadio ==
    [][AppCalls("GetNetworkStateIcon")
          => /\ appCall'.ret = (IF connected THEN << "w", "i", "f", "i" >>
                                           ELSE << "w", "i", "f", "i", "_", "o", "f", "f" >>)
             /\ appCall'.radio = << >>
             /\ UNCHANGED radioVars]_vars

C8_Witness ==
    /\ appCall.op = "GetNetworkStateIcon"
    /\ appCall.ret = << "w", "i", "f", "i" >>
    /\ connected

\* C9: from the end of construction until the board is destroyed,
\* display_ is non-null and every GetDisplay() returned it; every GetLed()
\* and GetAudioCodec() returned the handle its first call returned; the LED
\* and the codec are each constructed at most once, also when tasks make
\* their first calls concurrently, and exactly once when a call has returned.
C9_HandlesStable ==
    /\ ledCtors <= 1
    /\ codecCtors <= 1
    /\ ~destroyed => display_ = "SpiLcdDisplay"
    /\ \A t \in Tasks :
          /\ taskRet[t].fn = "GetLed"
                => (taskRet[t].handle = firstLed /\ ledCtors = 1)
          /\ taskRet[t].fn = "GetAudioCodec"
                => (taskRet[t].handle = firstCodec /\ codecCtors = 1)
          /\ (taskRet[t].fn = "GetDisplay" /\ ~destroyed)
                => (taskRet[t].handle = display_ /\ taskRet[t].handle # NullPtr)

C9_Witness ==
    /\ taskRet["t1"].fn = "GetLed"
    /\ taskRet["t2"].fn = "GetLed"
    /\ ledCtors = 1
    /\ codecCtors = 1
    /\ clickPc = "returned"
    /\ startNetworkCalls = 1
    /\ appCall.op = "GetDeviceStatusJson"

\* C10 (as claimed): under every interleaving of click callbacks,
\* StartNetwork() and the radio connecting, the radio gets no Start() while
\* it is started (two Start() with no Stop() between) and no Stop() while
\* it is connected.
C10_RadioCallDiscipline ==
    [][/\ RadioGetsStart => ~started
       /\ RadioGetsStop => ~connected]_vars

=============================================================================
